---- MODULE Spec2Model ----
(***************************************************************************)
(* Session orchestrator of cursor_automation_enhanced.py:                  *)
(* EnhancedCursorAutomation with its session registry, the monitor loop,   *)
(* the loop and completion detectors over the message bus, and the         *)
(* injection pipeline with its fallbacks.                                  *)
(*                                                                         *)
(* Abstractions:                                                           *)
(*  - time.time() is the integer clock `now`;                              *)
(*  - uuid4().hex[:8] is a fresh number (the count of sessions created);   *)
(*    a session id is the pair of its role and that number, the timestamp  *)
(*    at its end and the fields prompt and started_at, which no operation  *)
(*    modelled here reads back, are left out;                              *)
(*  - an artifact (session summary, manual instruction file) is emitted    *)
(*    when its writer is called; the file system behind it is not          *)
(*    modelled;                                                            *)
(*  - the message bus (mcp_server.SimpleMessageBus) is not part of the     *)
(*    sources, it is modelled from section 4.2 of the specification;       *)
(*  - `observed` is a history variable: what the last operation returned   *)
(*    and what it did on the way.                                          *)
(***************************************************************************)
EXTENDS Integers, Sequences, FiniteSets, TLC

\* ------------------------------------------------------------------ bounds
MaxSessions == 2
OrchestratorThreshold == 1
MaxMessages == OrchestratorThreshold
MaxStatusItems == 1
MaxThreshold == 4
MaxDetectMessages == 3
InactivityTimeout == 1
MaxTime == InactivityTimeout + 1

\* ------------------------------------------------------- program constants
PullLimit == 5
RecentWindow == 3

Roles == {"architect", "executor"}
ThresholdValues == 1..MaxThreshold
TerminalStatuses == {"completed", "failed", "looped", "timeout", "interrupted"}
OsNames == {"posix", "nt", "other"}

\* bodies of bus items; str(body) is the field s
MessageBodies ==
    { [t |-> "int", s |-> "1"], [t |-> "str", s |-> "1"], [t |-> "str", s |-> "2"] }

\* bodies on a status channel: a dict with done True / False / 1 / no done
\* field, or a body that is not a dict
StatusBodies ==
    { [t |-> "dict", done |-> "True"], [t |-> "dict", done |-> "False"],
      [t |-> "dict", done |-> "1"], [t |-> "dict", done |-> "absent"],
      [t |-> "str", done |-> "absent"] }

Channels == Roles \X {"messages", "status"}

VARIABLES
    sessions,      \* self.sessions: the dict in insertion order, a sequence of ChatSession
    summaries,     \* per session, the final_status of every _save_session_summary call
    config,        \* self.config
    mcp_bus,       \* self.mcp_bus: "none" or "connected"
    running,       \* self.running
    monitorPc,     \* position of the thread inside monitor_sessions
    snapshot,      \* what is left of list(self.sessions.items()) in the current cycle
    current_time,  \* current_time of the current cycle
    stopPc,        \* position of the caller inside stop_monitoring
    bus,           \* content of every bus channel
    busMode,       \* the bus answers with next, without next, or raises
    os_name,       \* os.name
    now,           \* time.time()
    observed       \* history: outcome of the last operation

vars == << sessions, summaries, config, mcp_bus, running, monitorPc, snapshot,
           current_time, stopPc, bus, busMode, os_name, now, observed >>

\* ----------------------------------------------------------------- helpers
\* dict.get(key, 0)
Get(d, key) == IF key \in DOMAIN d THEN d[key] ELSE 0

\* d[key] = value
Put(d, key, value) == [k \in (DOMAIN d) \cup {key} |-> IF k = key THEN value ELSE d[k]]

Min(a, b) == IF a < b THEN a ELSE b

\* items[-3:]
LastItems(items, n) ==
    IF Len(items) <= n THEN items ELSE SubSeq(items, Len(items) - n + 1, Len(items))

\* str(item.get('body', ''))
Str(body) == body.s

SessionIndexes == 1..Len(sessions)

LockHeld == monitorPc = "cycle"

\* ------------------------------------------------ message bus (section 4.2)
\* pull(channel, since, limit): the items strictly after since, in arrival
\* order, at most limit of them; next, when the bus gives it, is the offset
\* of the last item returned
BusPull(channel, since, limit) ==
    LET content == bus[channel]
        items == SubSeq(content, since + 1, Min(Len(content), since + limit))
    IN  [ raised |-> busMode = "down",
          items |-> items,
          hasNext |-> busMode = "next",
          next |-> since + Len(items) ]

\* ------------------------------------------------------------- detectors
\* mutant: the derived offset forgets since
AdvanceOffsetsFromZero(last_offsets, channel, since, messages) ==
    IF messages.hasNext
    THEN Put(last_offsets, channel, messages.next)
    ELSE IF messages.items # << >>
         THEN Put(last_offsets, channel, Len(messages.items))
         ELSE last_offsets

\* mutant: without next in the answer the offset is left where it was
AdvanceOffsetsOnlyWithNext(last_offsets, channel, since, messages) ==
    IF messages.hasNext
    THEN Put(last_offsets, channel, messages.next)
    ELSE last_offsets

\* session.last_offsets after a pull that did not raise
AdvanceOffsets(last_offsets, channel, since, messages) ==
    IF messages.hasNext
    THEN Put(last_offsets, channel, messages.next)
    ELSE IF messages.items # << >>
         THEN Put(last_offsets, channel, since + Len(messages.items))
         ELSE last_offsets

\* mutant: more items than the threshold are asked for
IsLoopAboveThreshold(items, threshold) ==
    IF Len(items) > threshold
    THEN LET recent == LastItems(items, RecentWindow)
             recent_bodies == { Str(recent[i]) : i \in 1..Len(recent) }
         IN  Cardinality(recent_bodies) <= 1
    ELSE FALSE

\* mutant: no loop without three items to compare
IsLoopNeedsThree(items, threshold) ==
    IF Len(items) >= threshold /\ Len(items) >= RecentWindow
    THEN LET recent == LastItems(items, RecentWindow)
             recent_bodies == { Str(recent[i]) : i \in 1..Len(recent) }
         IN  Cardinality(recent_bodies) <= 1
    ELSE FALSE

\* the decision of _detect_loop on the items of one pull
IsLoop(items, threshold) ==
    IF Len(items) >= threshold
    THEN LET recent == LastItems(items, RecentWindow)
             recent_bodies == { Str(recent[i]) : i \in 1..Len(recent) }
         IN  Cardinality(recent_bodies) <= 1
    ELSE FALSE

\* mutant: the truth value of done instead of its identity with True
IsDoneTruthy(body) == body.t = "dict" /\ body.done \in {"True", "1"}

\* body.get('done') is True, for a body that is a dict
IsDone(body) == body.t = "dict" /\ body.done = "True"

\* mutant: a pull that raises marks the session failed and counts an error
detect_loop_fails_session(session) ==
    LET channel == << session.role, "messages" >>
        since == Get(session.last_offsets, channel)
        messages == BusPull(channel, since, PullLimit)
    IN  IF messages.raised
        THEN [ ret |-> FALSE,
               session |-> [ session EXCEPT !.status = "failed",
                                            !.error_count = @ + 1 ],
               pulled |-> FALSE, items |-> << >> ]
        ELSE [ ret |-> IsLoop(messages.items, config.loop_detection_threshold),
               session |-> [ session EXCEPT
                    !.message_count = @ + Len(messages.items),
                    !.last_offsets = AdvanceOffsets(@, channel, since, messages) ],
               pulled |-> TRUE,
               items |-> messages.items ]

\* mutant: a pull asks for twice as many items
detect_loop_pulls_ten(session) ==
    LET channel == << session.role, "messages" >>
        since == Get(session.last_offsets, channel)
        messages == BusPull(channel, since, 2 * PullLimit)
    IN  IF messages.raised
        THEN [ ret |-> FALSE, session |-> session, pulled |-> FALSE, items |-> << >> ]
        ELSE [ ret |-> IsLoop(messages.items, config.loop_detection_threshold),
               session |-> [ session EXCEPT
                    !.message_count = @ + Len(messages.items),
                    !.last_offsets = AdvanceOffsets(@, channel, since, messages) ],
               pulled |-> TRUE,
               items |-> messages.items ]

\* mutant: the offset is advanced only when no loop is found
detect_loop_keeps_offset_on_loop(session) ==
    LET channel == << session.role, "messages" >>
        since == Get(session.last_offsets, channel)
        messages == BusPull(channel, since, PullLimit)
        is_loop == IsLoop(messages.items, config.loop_detection_threshold)
    IN  IF messages.raised
        THEN [ ret |-> FALSE, session |-> session, pulled |-> FALSE, items |-> << >> ]
        ELSE [ ret |-> is_loop,
               session |-> [ session EXCEPT
                    !.message_count = @ + Len(messages.items),
                    !.last_offsets = IF is_loop THEN @
                                     ELSE AdvanceOffsets(@, channel, since, messages) ],
               pulled |-> TRUE,
               items |-> messages.items ]

\* mutant: items that arrive count as activity
detect_loop_refreshes_activity(session) ==
    LET channel == << session.role, "messages" >>
        since == Get(session.last_offsets, channel)
        messages == BusPull(channel, since, PullLimit)
    IN  IF messages.raised
        THEN [ ret |-> FALSE, session |-> session, pulled |-> FALSE, items |-> << >> ]
        ELSE [ ret |-> IsLoop(messages.items, config.loop_detection_threshold),
               session |-> [ session EXCEPT
                    !.message_count = @ + Len(messages.items),
                    !.last_activity = IF messages.items # << >> THEN now ELSE @,
                    !.last_offsets = AdvanceOffsets(@, channel, since, messages) ],
               pulled |-> TRUE,
               items |-> messages.items ]

\* _detect_loop(session): the value returned, the session as it leaves it,
\* and the items it pulled
detect_loop(session) ==
    LET channel == << session.role, "messages" >>
        since == Get(session.last_offsets, channel)
        messages == BusPull(channel, since, PullLimit)
    IN  IF messages.raised
        THEN [ ret |-> FALSE, session |-> session, pulled |-> FALSE, items |-> << >> ]
        ELSE [ ret |-> IsLoop(messages.items, config.loop_detection_threshold),
               session |-> [ session EXCEPT
                    !.message_count = @ + Len(messages.items),
                    !.last_offsets = AdvanceOffsets(@, channel, since, messages) ],
               pulled |-> TRUE,
               items |-> messages.items ]

\* mutant: message_count is assigned the number of items instead of growing by it
check_completion_overwrites_count(session) ==
    LET channel == << session.role, "status" >>
        since == Get(session.last_offsets, channel)
        messages == BusPull(channel, since, PullLimit)
    IN  IF mcp_bus = "none" \/ messages.raised
        THEN [ ret |-> FALSE, session |-> session, pulled |-> FALSE, items |-> << >> ]
        ELSE [ ret |-> \E i \in 1..Len(messages.items) : IsDone(messages.items[i]),
               session |-> [ session EXCEPT
                    !.message_count = Len(messages.items),
                    !.last_offsets = AdvanceOffsets(@, channel, since, messages) ],
               pulled |-> TRUE,
               items |-> messages.items ]

\* _check_completion(session); with no bus connected self.mcp_bus.pull raises
check_completion(session) ==
    LET channel == << session.role, "status" >>
        since == Get(session.last_offsets, channel)
        messages == BusPull(channel, since, PullLimit)
    IN  IF mcp_bus = "none" \/ messages.raised
        THEN [ ret |-> FALSE, session |-> session, pulled |-> FALSE, items |-> << >> ]
        ELSE [ ret |-> \E i \in 1..Len(messages.items) : IsDone(messages.items[i]),
               session |-> [ session EXCEPT
                    !.message_count = @ + Len(messages.items),
                    !.last_offsets = AdvanceOffsets(@, channel, since, messages) ],
               pulled |-> TRUE,
               items |-> messages.items ]

\* ---------------------------------------------------- injection pipeline
Methods == << "clipboard_linux", "clipboard_windows", "file_fallback", "direct_input" >>

\* what a strategy can answer in this environment: True ("ok"), False
\* ("fail") or an exception ("raise")
StrategyOutcomes(method) ==
    CASE method = "clipboard_linux" ->
            IF os_name = "posix" THEN {"ok", "fail", "raise"} ELSE {"fail"}
      [] method = "clipboard_windows" ->
            IF os_name = "nt" THEN {"ok", "fail"} ELSE {"fail"}
      [] method = "file_fallback" -> {"ok", "fail"}
      [] method = "direct_input" -> {"fail"}

MethodNames == { Methods[k] : k \in 1..Len(Methods) }

OutcomeChoices ==
    { o \in [MethodNames -> {"ok", "fail", "raise"}] :
        \A m \in MethodNames : o[m] \in StrategyOutcomes(m) }

\* the answers in which only the first strategy may do anything but fail
FirstStrategyChoices ==
    { o \in OutcomeChoices : \A m \in MethodNames \ {Methods[1]} : o[m] = "fail" }

\* mutant: the pipeline goes on after a success
OnOutcomeNoReturn(outcome) ==
    CASE outcome = "ok" -> "next"
      [] outcome = "fail" -> "next"
      [] outcome = "raise" -> "next"

\* mutant: the pipeline does not catch what a strategy raises
OnOutcomeUncaught(outcome) ==
    CASE outcome = "ok" -> "return"
      [] outcome = "fail" -> "next"
      [] outcome = "raise" -> "escape"

\* what the pipeline does with the answer of one strategy
OnOutcome(outcome) ==
    CASE outcome = "ok" -> "return"
      [] outcome = "fail" -> "next"
      [] outcome = "raise" -> "next"

\* mutant: the instruction file is written after every success
ManualOnAnySuccess(method) == 1

\* manual instruction files written when the pipeline returns through method
ManualOnSuccess(method) == IF method = "file_fallback" THEN 1 ELSE 0

\* the for loop of _inject_prompt_with_fallbacks from methods[k] on
RECURSIVE TryMethods(_, _, _)
TryMethods(k, outcomes, invoked) ==
    IF k > Len(Methods)
    THEN [ invoked |-> invoked, via |-> "none", manual |-> 1, escaped |-> FALSE ]
    ELSE LET method_name == Methods[k]
             step == OnOutcome(outcomes[method_name])
         IN  IF step = "return"
             THEN [ invoked |-> Append(invoked, method_name), via |-> method_name,
                    manual |-> ManualOnSuccess(method_name), escaped |-> FALSE ]
             ELSE IF step = "next"
             THEN TryMethods(k + 1, outcomes, Append(invoked, method_name))
             ELSE [ invoked |-> Append(invoked, method_name), via |-> "none",
                    manual |-> 0, escaped |-> TRUE ]

inject_prompt_with_fallbacks(outcomes) == TryMethods(1, outcomes, << >>)

\* _inject_prompt_with_fallbacks_simple: the one strategy it calls
SimpleMethod ==
    IF os_name = "posix" THEN "clipboard_linux"
    ELSE IF os_name = "nt" THEN "clipboard_windows"
    ELSE "file_fallback"

\* ------------------------------------------- the strategies from inside
\* the machine as the strategies find it: wsl is _is_wsl_environment(),
\* clip_exe a clip.exe (or pyperclip) that sets the Windows clipboard, xclip
\* an xclip or xsel that sets the X clipboard, powershell a powershell.exe
\* whose SendKeys script ends with return code 0, window a Cursor window
\* that xdotool or pygetwindow finds, pyautogui an importable pyautogui.
\* WAYLAND_DISPLAY is unset.  os.name "nt" has no X tools and is not WSL; a
\* posix machine that is not WSL has no clip.exe and no powershell.exe.
Environments ==
    { env \in [ wsl : BOOLEAN, clip_exe : BOOLEAN, xclip : BOOLEAN,
                powershell : BOOLEAN, window : BOOLEAN, pyautogui : BOOLEAN ] :
        /\ os_name = "nt" => ~env.wsl /\ ~env.xclip
        /\ os_name = "other" => ~env.wsl
        /\ (os_name = "posix" /\ ~env.wsl) => ~env.clip_exe /\ ~env.powershell }

\* what a strategy answers, and the OS-interactive actions it performed:
\* "focus" is a window activated, "keys" keystrokes sent
Answer(ret, acts) == [ ret |-> ret, acts |-> acts ]

\* _simulate_paste_linux: xdotool, then pyautogui
simulate_paste_linux(gui, env) ==
    IF ~gui THEN Answer(TRUE, {})
    ELSE IF env.window THEN Answer(TRUE, {"focus", "keys"})
    ELSE IF env.pyautogui THEN Answer(TRUE, {"keys"})
    ELSE Answer(FALSE, {})

\* _simulate_paste_wsl_windows: AppActivate and SendKeys through PowerShell
simulate_paste_wsl_windows(env) ==
    IF env.powershell THEN Answer(TRUE, {"focus", "keys"}) ELSE Answer(FALSE, {})

\* _inject_via_clipboard_linux
inject_via_clipboard_linux(gui, env) ==
    IF os_name # "posix" THEN Answer(FALSE, {})
    ELSE IF env.wsl
    THEN IF env.clip_exe THEN simulate_paste_wsl_windows(env) ELSE Answer(FALSE, {})
    ELSE IF env.xclip THEN simulate_paste_linux(gui, env)
    ELSE Answer(FALSE, {})

\* _simulate_paste_windows: pygetwindow and pyautogui, then PowerShell
simulate_paste_windows(gui, env) ==
    IF ~gui THEN Answer(TRUE, {})
    ELSE IF env.pyautogui /\ env.window THEN Answer(TRUE, {"focus", "keys"})
    ELSE IF env.powershell THEN Answer(TRUE, {"focus", "keys"})
    ELSE Answer(FALSE, {})

\* _inject_via_clipboard_windows
inject_via_clipboard_windows(gui, env) ==
    IF os_name # "nt" THEN Answer(FALSE, {})
    ELSE IF env.clip_exe THEN simulate_paste_windows(gui, env)
    ELSE Answer(FALSE, {})

\* _try_native_linux_automation: xclip, then xdotool windowfocus and keys
try_native_linux_automation(env) ==
    IF env.xclip /\ env.window THEN Answer(TRUE, {"focus", "keys"})
    ELSE Answer(FALSE, {})

\* _try_wsl_clipboard_automation
try_wsl_clipboard_automation(env) == env.clip_exe

\* _inject_via_file_fallback
inject_via_file_fallback(env) ==
    IF try_native_linux_automation(env).ret
    THEN try_native_linux_automation(env)
    ELSE IF try_wsl_clipboard_automation(env)
    THEN Answer(TRUE, simulate_paste_wsl_windows(env).acts)
    ELSE Answer(FALSE, {})

\* the strategy called method in the environment env
Strategy(method, gui, env) ==
    CASE method = "clipboard_linux" -> inject_via_clipboard_linux(gui, env)
      [] method = "clipboard_windows" -> inject_via_clipboard_windows(gui, env)
      [] method = "file_fallback" -> inject_via_file_fallback(env)
      [] method = "direct_input" -> Answer(FALSE, {})

\* the answers of the four strategies in the environment env
OutcomesIn(gui, env) ==
    [ m \in MethodNames |-> IF Strategy(m, gui, env).ret THEN "ok" ELSE "fail" ]

\* the OS-interactive actions of the strategies in invoked
ActsOf(invoked, gui, env) ==
    UNION { Strategy(invoked[k], gui, env).acts : k \in 1..Len(invoked) }

\* ----------------------------------------------------------- monitoring
\* the timeout test of _monitor_single_session
TimedOut(inactive_time, inactivity_timeout) == inactive_time > inactivity_timeout

\* mutant: the intervention puts the session back to running
handle_loop_detection_resumes(session, inject) ==
    IF inject = "raise"
    THEN [ session EXCEPT !.status = "running" ]
    ELSE [ session EXCEPT !.last_activity = now,
                          !.error_count = @ + 1,
                          !.last_error = "Loop detected and intervention applied",
                          !.status = "running" ]

\* _handle_loop_detection: the loop breaker goes through the simple
\* injection; when that raises, the three assignments after it are skipped
handle_loop_detection(session, inject) ==
    IF inject = "raise"
    THEN session
    ELSE [ session EXCEPT !.last_activity = now,
                          !.error_count = @ + 1,
                          !.last_error = "Loop detected and intervention applied" ]

\* what _monitor_single_session has evaluated, before it evaluates anything
BlankLog ==
    [ timeout |-> FALSE, loopRan |-> FALSE, loop |-> FALSE,
      loopPulled |-> FALSE, loopItems |-> << >>,
      complRan |-> FALSE, completed |-> FALSE,
      complPulled |-> FALSE, complItems |-> << >>,
      inject |-> "none", breaker |-> << >> ]

\* _monitor_single_session after the timeout test: the loop check, then the
\* completion check
monitor_checks(session, inject) ==
    LET loopRan == mcp_bus # "none"
        dl == IF loopRan THEN detect_loop(session)
              ELSE [ ret |-> FALSE, session |-> session, pulled |-> FALSE,
                     items |-> << >> ]
        log1 == [ BlankLog EXCEPT !.loopRan = loopRan, !.loop = dl.ret,
                                  !.loopPulled = dl.pulled, !.loopItems = dl.items ]
    IN  IF dl.ret
        THEN [ session |-> handle_loop_detection(
                              [ dl.session EXCEPT !.loop_detected = TRUE,
                                                  !.status = "looped" ], inject),
               saved |-> << >>,
               log |-> [ log1 EXCEPT !.inject = inject,
                                     !.breaker = << SimpleMethod >> ] ]
        ELSE
        LET cc == check_completion(dl.session)
            log2 == [ log1 EXCEPT !.complRan = TRUE, !.completed = cc.ret,
                                  !.complPulled = cc.pulled,
                                  !.complItems = cc.items ]
        IN  IF cc.ret
            THEN [ session |-> [ cc.session EXCEPT !.status = "completed" ],
                   saved |-> << "completed" >>,
                   log |-> log2 ]
            ELSE [ session |-> cc.session, saved |-> << >>, log |-> log2 ]

\* mutant: a timeout counts as an error of the session
monitor_timeout_counts_error(session) ==
    [ session |-> [ session EXCEPT !.status = "timeout", !.error_count = @ + 1 ],
      saved |-> << "timeout" >>,
      log |-> [ BlankLog EXCEPT !.timeout = TRUE ] ]

\* _handle_session_timeout after session.status = "timeout"
monitor_timeout(session) ==
    [ session |-> [ session EXCEPT !.status = "timeout" ],
      saved |-> << "timeout" >>,
      log |-> [ BlankLog EXCEPT !.timeout = TRUE ] ]

\* mutant: the loop and completion checks come before the timeout test
monitor_single_session_checks_first(session, ct, inject) ==
    LET r == monitor_checks(session, inject)
    IN  IF r.session.status # "running"
        THEN r
        ELSE IF TimedOut(ct - session.last_activity, config.inactivity_timeout)
             THEN monitor_timeout(r.session)
             ELSE r

\* _monitor_single_session(session, current_time): the session as it leaves
\* it, the summaries saved, and what was evaluated on the way
monitor_single_session(session, ct, inject) ==
    LET inactive_time == ct - session.last_activity
    IN  IF TimedOut(inactive_time, config.inactivity_timeout)
        THEN monitor_timeout(session)
        ELSE monitor_checks(session, inject)

\* mutant: stop_monitoring without its test of the status
StopTargetsAll(session) == TRUE

\* the sessions stop_monitoring interrupts
StopTargets(session) == session.status = "running"

\* the body of stop_monitoring under the lock
InterruptRunning(ss) ==
    [ i \in 1..Len(ss) |->
        IF StopTargets(ss[i]) THEN [ ss[i] EXCEPT !.status = "interrupted" ] ELSE ss[i] ]

InterruptSummaries(ss, sm) ==
    [ i \in 1..Len(ss) |->
        IF StopTargets(ss[i]) THEN Append(sm[i], "interrupted") ELSE sm[i] ]

\* mutant: the cycle without its test of the status
ShouldMonitorAll(session) == TRUE

\* the sessions a monitor cycle evaluates
ShouldMonitor(session) == session.status = "running"

UnknownId == << "architect", 0 >>

KnownIds == { sessions[i].id : i \in SessionIndexes }

IndexOf(id) == CHOOSE i \in SessionIndexes : sessions[i].id = id

\* ------------------------------------------------------------------ Init
\* the orchestrator after __init__(config), on a machine whose os.name is os;
\* bus_instance is "connected" when connect_to_mcp has been called as well
ConstructedWith(gui, threshold, os, bus_instance) ==
    /\ sessions = << >>
    /\ summaries = << >>
    /\ config = [ loop_detection_threshold |-> threshold,
                  inactivity_timeout |-> InactivityTimeout,
                  enable_gui_automation |-> gui ]
    /\ mcp_bus = bus_instance
    /\ running = FALSE
    /\ monitorPc = "idle"
    /\ snapshot = << >>
    /\ current_time = 0
    /\ stopPc = "idle"
    /\ bus = [ c \in Channels |-> << >> ]
    /\ busMode = "next"
    /\ os_name = os
    /\ now = 0
    /\ observed = [ op |-> "init" ]

\* AutomationConfig.enable_gui_automation is True unless the caller says so
Constructed(threshold, os, bus_instance) ==
    ConstructedWith(TRUE, threshold, os, bus_instance)

Init == \E t \in ThresholdValues, os \in OsNames : Constructed(t, os, "none")

\* --------------------------------------------------------------- actions
\* connect_to_mcp(bus_instance)
connect_to_mcp ==
    /\ mcp_bus = "none"
    /\ mcp_bus' = "connected"
    /\ observed' = [ op |-> "env" ]
    /\ UNCHANGED << sessions, summaries, config, running, monitorPc, snapshot,
                    current_time, stopPc, bus, busMode, os_name, now >>

\* mutant: the id is made of the role alone, and a second session of a role
\* takes the place of the first in the dict
create_chat_session_by_role(role) ==
    /\ Len(sessions) < MaxSessions
    /\ ~LockHeld
    /\ LET session_id == << role, 1 >>
           session == [ id |-> session_id, role |-> role,
                        last_activity |-> now,
                        message_count |-> 0, last_offsets |-> << >>,
                        loop_detected |-> FALSE, status |-> "running",
                        error_count |-> 0, last_error |-> "None" ]
       IN  /\ IF session_id \in KnownIds
              THEN /\ sessions' = [ sessions EXCEPT ![IndexOf(session_id)] = session ]
                   /\ summaries' = summaries
              ELSE /\ sessions' = Append(sessions, session)
                   /\ summaries' = Append(summaries, << >>)
           /\ observed' = [ op |-> "env" ]
    /\ UNCHANGED << config, mcp_bus, running, monitorPc, snapshot, current_time,
                    stopPc, bus, busMode, os_name, now >>

\* create_chat_session(role, prompt_template)
create_chat_session(role) ==
    /\ Len(sessions) < MaxSessions
    /\ ~LockHeld
    /\ LET session_id == << role, Len(sessions) + 1 >>
           session == [ id |-> session_id, role |-> role,
                        last_activity |-> now,
                        message_count |-> 0, last_offsets |-> << >>,
                        loop_detected |-> FALSE, status |-> "running",
                        error_count |-> 0, last_error |-> "None" ]
       IN  /\ sessions' = Append(sessions, session)
           /\ summaries' = Append(summaries, << >>)
           /\ observed' = [ op |-> "env" ]
    /\ UNCHANGED << config, mcp_bus, running, monitorPc, snapshot, current_time,
                    stopPc, bus, busMode, os_name, now >>

\* the history after an operation: what it returned when detail is asked
\* for, nothing otherwise
Seen(detail, outcome) == IF detail THEN outcome ELSE [ op |-> "env" ]

\* mutant: the application is launched before the session is looked up
launch_cursor_without_lookup(session_id, cursor, outcomes, detail) ==
    /\ IF session_id \notin KnownIds /\ cursor = "launched"
       THEN /\ observed' = Seen(detail, [ op |-> "launch_cursor_with_prompt",
                             found |-> FALSE, result |-> TRUE, injected |-> FALSE,
                             id |-> session_id, launched |-> TRUE ])
            /\ UNCHANGED sessions
       ELSE IF cursor # "launched"
       THEN /\ observed' = Seen(detail, [ op |-> "launch_cursor_with_prompt",
                             found |-> TRUE, result |-> FALSE, injected |-> FALSE,
                             id |-> session_id, launched |-> FALSE ])
            /\ UNCHANGED sessions
       ELSE LET i == IndexOf(session_id)
                run == inject_prompt_with_fallbacks(outcomes)
            IN  IF run.escaped
                THEN /\ sessions' = [ sessions EXCEPT ![i].error_count = @ + 1,
                                                      ![i].last_error = "exception" ]
                     /\ observed' = Seen(detail, [ op |-> "launch_cursor_with_prompt",
                                      found |-> TRUE, result |-> FALSE,
                                      injected |-> TRUE, index |-> i,
                                      id |-> session_id, launched |-> TRUE,
                                      outcomes |-> outcomes, run |-> run ])
                ELSE /\ sessions' = [ sessions EXCEPT ![i].last_activity = now ]
                     /\ observed' = Seen(detail, [ op |-> "launch_cursor_with_prompt",
                                      found |-> TRUE, result |-> TRUE,
                                      injected |-> TRUE, index |-> i,
                                      id |-> session_id, launched |-> TRUE,
                                      outcomes |-> outcomes, run |-> run ])
    /\ UNCHANGED << summaries, config, mcp_bus, running, monitorPc, snapshot,
                    current_time, stopPc, bus, busMode, os_name, now >>

\* launch_cursor_with_prompt(session_id); cursor is what _find_cursor_command
\* and _launch_cursor_application make of the machine
launch_cursor_with_prompt(session_id, cursor, outcomes, detail) ==
    /\ IF session_id \notin KnownIds
       THEN /\ observed' = Seen(detail, [ op |-> "launch_cursor_with_prompt",
                             found |-> FALSE, result |-> FALSE, injected |-> FALSE,
                             id |-> session_id, launched |-> FALSE ])
            /\ UNCHANGED sessions
       ELSE IF cursor # "launched"
       THEN /\ observed' = Seen(detail, [ op |-> "launch_cursor_with_prompt",
                             found |-> TRUE, result |-> FALSE, injected |-> FALSE,
                             id |-> session_id, launched |-> FALSE ])
            /\ UNCHANGED sessions
       ELSE LET i == IndexOf(session_id)
                run == inject_prompt_with_fallbacks(outcomes)
            IN  IF run.escaped
                THEN /\ sessions' = [ sessions EXCEPT ![i].error_count = @ + 1,
                                                      ![i].last_error = "exception" ]
                     /\ observed' = Seen(detail, [ op |-> "launch_cursor_with_prompt",
                                      found |-> TRUE, result |-> FALSE,
                                      injected |-> TRUE, index |-> i,
                                      id |-> session_id, launched |-> TRUE,
                                      outcomes |-> outcomes, run |-> run ])
                ELSE /\ sessions' = [ sessions EXCEPT ![i].last_activity = now ]
                     /\ observed' = Seen(detail, [ op |-> "launch_cursor_with_prompt",
                                      found |-> TRUE, result |-> TRUE,
                                      injected |-> TRUE, index |-> i,
                                      id |-> session_id, launched |-> TRUE,
                                      outcomes |-> outcomes, run |-> run ])
    /\ UNCHANGED << summaries, config, mcp_bus, running, monitorPc, snapshot,
                    current_time, stopPc, bus, busMode, os_name, now >>

\* monitor_sessions(): self.running = True
monitor_start ==
    /\ monitorPc = "idle"
    /\ running' = TRUE
    /\ monitorPc' = "loop"
    /\ observed' = [ op |-> "env" ]
    /\ UNCHANGED << sessions, summaries, config, mcp_bus, snapshot, current_time,
                    stopPc, bus, busMode, os_name, now >>

\* while self.running: current_time = time.time()
monitor_loop_check ==
    /\ monitorPc = "loop"
    /\ IF running
       THEN monitorPc' = "acquire" /\ current_time' = now
       ELSE monitorPc' = "stopped" /\ UNCHANGED current_time
    /\ observed' = [ op |-> "env" ]
    /\ UNCHANGED << sessions, summaries, config, mcp_bus, running, snapshot,
                    stopPc, bus, busMode, os_name, now >>

\* with self._lock: for session_id, session in list(self.sessions.items())
monitor_cycle_begin ==
    /\ monitorPc = "acquire"
    /\ monitorPc' = "cycle"
    /\ snapshot' = [ i \in SessionIndexes |-> i ]
    /\ observed' = [ op |-> "env" ]
    /\ UNCHANGED << sessions, summaries, config, mcp_bus, running, current_time,
                    stopPc, bus, busMode, os_name, now >>

\* one iteration of the for loop of a cycle
monitor_session_step(inject) ==
    /\ monitorPc = "cycle"
    /\ snapshot # << >>
    /\ LET i == Head(snapshot)
       IN  IF ShouldMonitor(sessions[i])
           THEN LET r == monitor_single_session(sessions[i], current_time, inject)
                IN  /\ sessions' = [ sessions EXCEPT ![i] = r.session ]
                    /\ summaries' = [ summaries EXCEPT ![i] = @ \o r.saved ]
                    /\ observed' = [ op |-> "monitor_single_session", index |-> i,
                                     log |-> r.log ]
           ELSE /\ UNCHANGED << sessions, summaries >>
                /\ observed' = [ op |-> "env" ]
    /\ snapshot' = Tail(snapshot)
    /\ UNCHANGED << config, mcp_bus, running, monitorPc, current_time, stopPc, bus,
                    busMode, os_name, now >>

\* the lock is released, time.sleep(check_interval)
monitor_cycle_end ==
    /\ monitorPc = "cycle"
    /\ snapshot = << >>
    /\ monitorPc' = "loop"
    /\ current_time' = 0
    /\ observed' = [ op |-> "env" ]
    /\ UNCHANGED << sessions, summaries, config, mcp_bus, running, snapshot,
                    stopPc, bus, busMode, os_name, now >>

\* mutant: nothing catches the exception and monitor_sessions ends with it
monitor_cycle_exception_uncaught ==
    /\ monitorPc \in {"acquire", "cycle"}
    /\ monitorPc' = "stopped"
    /\ snapshot' = << >>
    /\ current_time' = 0
    /\ observed' = [ op |-> "monitor_exception" ]
    /\ UNCHANGED << sessions, summaries, config, mcp_bus, running, stopPc, bus,
                    busMode, os_name, now >>

\* except Exception: an exception raised in the cycle, before or between
\* the sessions it evaluates, ends the cycle; the lock is released,
\* time.sleep(5), and the while loop goes on
monitor_cycle_exception ==
    /\ monitorPc \in {"acquire", "cycle"}
    /\ monitorPc' = "loop"
    /\ snapshot' = << >>
    /\ current_time' = 0
    /\ observed' = [ op |-> "monitor_exception" ]
    /\ UNCHANGED << sessions, summaries, config, mcp_bus, running, stopPc, bus,
                    busMode, os_name, now >>

\* except KeyboardInterrupt: self.stop_monitoring(); break
monitor_keyboard_interrupt ==
    /\ monitorPc \in {"loop", "acquire", "cycle"}
    /\ running' = FALSE
    /\ sessions' = InterruptRunning(sessions)
    /\ summaries' = InterruptSummaries(sessions, summaries)
    /\ snapshot' = << >>
    /\ current_time' = 0
    /\ monitorPc' = "stopped"
    /\ observed' = [ op |-> "monitor_keyboard_interrupt" ]
    /\ UNCHANGED << config, mcp_bus, stopPc, bus, busMode, os_name, now >>

\* stop_monitoring(): self.running = False
stop_monitoring_begin ==
    /\ stopPc = "idle"
    /\ running' = FALSE
    /\ stopPc' = "cleanup"
    /\ observed' = [ op |-> "env" ]
    /\ UNCHANGED << sessions, summaries, config, mcp_bus, monitorPc, snapshot,
                    current_time, bus, busMode, os_name, now >>

\* stop_monitoring(): with self._lock, interrupt what is running, and return
stop_monitoring_cleanup ==
    /\ stopPc = "cleanup"
    /\ ~LockHeld
    /\ sessions' = InterruptRunning(sessions)
    /\ summaries' = InterruptSummaries(sessions, summaries)
    /\ stopPc' = "idle"
    /\ observed' = [ op |-> "stop_monitoring" ]
    /\ UNCHANGED << config, mcp_bus, running, monitorPc, snapshot, current_time,
                    bus, busMode, os_name, now >>

\* mutant: the view gives error_count under message_count
SessionViewMixedCounters(session) ==
    [ id |-> session.id, role |-> session.role, status |-> session.status,
      inactive_time |-> now - session.last_activity,
      message_count |-> session.error_count,
      error_count |-> session.error_count,
      loop_detected |-> session.loop_detected ]

\* get_detailed_status(): the view of every session
SessionView(session) ==
    [ id |-> session.id, role |-> session.role, status |-> session.status,
      inactive_time |-> now - session.last_activity,
      message_count |-> session.message_count,
      error_count |-> session.error_count,
      loop_detected |-> session.loop_detected ]

get_detailed_status(detail) ==
    /\ ~LockHeld
    /\ observed' = Seen(detail, [ op |-> "get_detailed_status",
                     view |-> [ i \in SessionIndexes |-> SessionView(sessions[i]) ] ])
    /\ UNCHANGED << sessions, summaries, config, mcp_bus, running, monitorPc,
                    snapshot, current_time, stopPc, bus, busMode, os_name, now >>

\* ----------------------------------------------------------- environment
\* an agent posts an item on a channel of the bus
bus_post(channel, body) ==
    /\ bus' = [ bus EXCEPT ![channel] = Append(@, body) ]
    /\ observed' = [ op |-> "env" ]
    /\ UNCHANGED << sessions, summaries, config, mcp_bus, running, monitorPc,
                    snapshot, current_time, stopPc, busMode, os_name, now >>

\* the bus starts or stops giving next, or starts or stops failing
bus_change(mode) ==
    /\ mode # busMode
    /\ busMode' = mode
    /\ observed' = [ op |-> "env" ]
    /\ UNCHANGED << sessions, summaries, config, mcp_bus, running, monitorPc,
                    snapshot, current_time, stopPc, bus, os_name, now >>

\* the clock advances
tick ==
    /\ now < MaxTime
    /\ now' = now + 1
    /\ observed' = [ op |-> "env" ]
    /\ UNCHANGED << sessions, summaries, config, mcp_bus, running, monitorPc,
                    snapshot, current_time, stopPc, bus, busMode, os_name >>

\* what the environment posts: a channel and a body, within the bounds
Postable(messageBodies, statusBodies, maxMessages) ==
    { p \in Channels \X (messageBodies \cup statusBodies) :
        /\ \E i \in SessionIndexes : sessions[i].role = p[1][1]
        /\ IF p[1][2] = "messages"
           THEN p[2] \in messageBodies /\ Len(bus[p[1]]) < maxMessages
           ELSE p[2] \in statusBodies /\ Len(bus[p[1]]) < MaxStatusItems }

Monitor ==
    \/ monitor_start
    \/ monitor_loop_check
    \/ monitor_cycle_begin
    \/ \E inject \in StrategyOutcomes(SimpleMethod) : monitor_session_step(inject)
    \/ monitor_cycle_end

\* the orchestrator: every operation, several sessions, a bus whose message
\* items all carry the same body
OrchestratorRoles == { "architect" }
OneBody == { [t |-> "str", s |-> "1"] }
DoneBodies == { [t |-> "dict", done |-> "True"], [t |-> "dict", done |-> "False"] }

Next ==
    \/ connect_to_mcp
    \/ \E role \in OrchestratorRoles : create_chat_session(role)
    \/ \E id \in KnownIds \cup {UnknownId},
          cursor \in {"no_cursor", "launch_failed", "launched"},
          outcomes \in FirstStrategyChoices :
            launch_cursor_with_prompt(id, cursor, outcomes, FALSE)
    \/ Monitor
    \/ monitor_keyboard_interrupt
    \/ stop_monitoring_begin
    \/ stop_monitoring_cleanup
    \/ get_detailed_status(FALSE)
    \/ \E p \in Postable(OneBody, DoneBodies, MaxMessages) : bus_post(p[1], p[2])
    \/ tick

InitOrchestrator == Constructed(OrchestratorThreshold, "posix", "none")

Spec == InitOrchestrator /\ [][Next]_vars

\* the detectors: one session, every threshold, every body, a bus that may
\* fail or leave next out
NextDetect ==
    \/ Len(sessions) = 0 /\ create_chat_session("architect")
    \/ Monitor
    \/ \E p \in Postable(MessageBodies, StatusBodies, MaxDetectMessages) : bus_post(p[1], p[2])
    \/ \E mode \in {"next", "nonext", "down"} : bus_change(mode)

InitDetect == \E t \in ThresholdValues : Constructed(t, "posix", "connected")

SpecDetect == InitDetect /\ [][NextDetect]_vars

\* the injection pipeline: every environment, every answer of the strategies
NextInject ==
    \/ \E role \in Roles : create_chat_session(role)
    \/ \E id \in KnownIds \cup {UnknownId},
          cursor \in {"no_cursor", "launch_failed", "launched"},
          outcomes \in OutcomeChoices :
            launch_cursor_with_prompt(id, cursor, outcomes, TRUE)
    \/ tick

SpecInject == Init /\ [][NextInject]_vars

\* the monitor thread and a caller of stop_monitoring: monitorPc = "idle"
\* is the thread that has not yet executed self.running = True; the thread
\* keeps being scheduled, which is the weak fairness of Monitor
NextStop ==
    \/ \E role \in OrchestratorRoles : create_chat_session(role)
    \/ Monitor
    \/ stop_monitoring_begin
    \/ stop_monitoring_cleanup
    \/ tick

SpecStop == InitOrchestrator /\ [][NextStop]_vars /\ WF_vars(Monitor)

\* the status report next to a working monitor: sessions of every role, a
\* connected bus, and get_detailed_status with its result kept
NextStatus ==
    \/ \E role \in Roles : create_chat_session(role)
    \/ Monitor
    \/ \E p \in Postable(OneBody, DoneBodies, MaxMessages) : bus_post(p[1], p[2])
    \/ get_detailed_status(TRUE)

InitStatus == Constructed(OrchestratorThreshold, "posix", "connected")

SpecStatus == InitStatus /\ [][NextStatus]_vars

\* the monitor thread with cycles that raise, next to a caller of
\* stop_monitoring and a KeyboardInterrupt
NextSurvive ==
    \/ NextStop
    \/ monitor_cycle_exception
    \/ monitor_keyboard_interrupt

SpecSurvive == InitOrchestrator /\ [][NextSurvive]_vars

\* the two ways a prompt reaches the strategies, the launch and the loop
\* breaker, with the feature flag on and off
NextGui ==
    \/ \E role \in OrchestratorRoles : create_chat_session(role)
    \/ \E id \in KnownIds, outcomes \in OutcomeChoices :
            launch_cursor_with_prompt(id, "launched", outcomes, TRUE)
    \/ Monitor
    \/ \E p \in Postable(OneBody, DoneBodies, MaxMessages) : bus_post(p[1], p[2])

InitGui ==
    \E gui \in BOOLEAN, os \in OsNames :
        ConstructedWith(gui, OrchestratorThreshold, os, "connected")

SpecGui == InitGui /\ [][NextGui]_vars

\* the loop detector alone: one session, thresholds on both sides of the
\* size of a pull, channels longer than one pull, and a bus that answers
MaxLoopThreshold == PullLimit + 1
MaxLoopMessages == PullLimit + 1
LoopThresholds == 1..MaxLoopThreshold
LoopBodies == { [t |-> "int", s |-> "1"], [t |-> "str", s |-> "1"],
                [t |-> "str", s |-> "2"] }

NextLoop ==
    \/ Len(sessions) = 0 /\ create_chat_session("architect")
    \/ Monitor
    \/ \E p \in Postable(LoopBodies, {}, MaxLoopMessages) : bus_post(p[1], p[2])

InitLoop == \E t \in LoopThresholds : Constructed(t, "nt", "connected")

SpecLoop == InitLoop /\ [][NextLoop]_vars

\* a monitor thread that keeps being scheduled and a clock that keeps
\* advancing, with agents that post and a caller that launches; sessions
\* are created and launched while the clock of the model can still run
\* past their inactivity timeout
LiveThreshold == OrchestratorThreshold + 1
ClockCanPassTimeout == now + InactivityTimeout < MaxTime

NextLive ==
    \/ ClockCanPassTimeout /\ \E role \in OrchestratorRoles : create_chat_session(role)
    \/ ClockCanPassTimeout /\ \E id \in KnownIds, outcomes \in FirstStrategyChoices :
            launch_cursor_with_prompt(id, "launched", outcomes, FALSE)
    \/ Monitor
    \/ \E p \in Postable(OneBody, DoneBodies, LiveThreshold) : bus_post(p[1], p[2])
    \/ tick

InitLive == Constructed(LiveThreshold, "nt", "connected")

\* the thread of monitor_sessions has a step to take until it has left the
\* while loop
MonitorCanStep == monitorPc # "stopped"

\* WF_vars(Monitor) written out: every step of Monitor moves monitorPc or
\* snapshot, so that <<Monitor>>_vars is enabled exactly when MonitorCanStep
MonitorFair == []<>(~MonitorCanStep) \/ []<><<Monitor>>_vars

SpecLive == InitLive /\ [][NextLive]_vars /\ MonitorFair /\ WF_vars(tick)

\* ================================================================ claims
Threshold == config.loop_detection_threshold

MessagesChannel(i) == << sessions[i].role, "messages" >>
StatusChannel(i) == << sessions[i].role, "status" >>

\* the items of a channel a session has not consumed yet, as one pull gives them
Unread(i, channel) ==
    LET since == Get(sessions[i].last_offsets, channel)
    IN  SubSeq(bus[channel], since + 1, Min(Len(bus[channel]), since + PullLimit))

BusAnswers == mcp_bus = "connected" /\ busMode # "down"

DoneTrue == [t |-> "dict", done |-> "True"]

\* the three conditions of a monitor cycle, on the state before the cycle
TimeoutCondition(i) ==
    current_time - sessions[i].last_activity > config.inactivity_timeout

LoopCondition(i) ==
    LET items == Unread(i, MessagesChannel(i))
        n == Len(items)
    IN  /\ BusAnswers
        /\ n >= Threshold
        /\ \A j, k \in 1..n : (j > n - 3 /\ k > n - 3) => items[j].s = items[k].s

CompletionCondition(i) ==
    LET items == Unread(i, StatusChannel(i))
    IN  BusAnswers /\ \E k \in 1..Len(items) : items[k] = DoneTrue

\* the step in which the monitor evaluates the running session i
MonitorStepOf(i) ==
    /\ monitorPc = "cycle" /\ monitorPc' = "cycle"
    /\ snapshot # << >> /\ Head(snapshot) = i /\ snapshot' = Tail(snapshot)
    /\ sessions[i].status = "running"

MonitoredNow(i) == observed.op = "monitor_single_session" /\ observed.index = i

\* C1: once the status of a session is completed, failed, looped, timeout or
\* interrupted, no operation changes it, and the session stays registered
\* under its id
TerminalStatusIsFinal ==
    [][ \A i \in SessionIndexes :
            sessions[i].status \in TerminalStatuses =>
                /\ i <= Len(sessions')
                /\ sessions'[i].id = sessions[i].id
                /\ sessions'[i].status = sessions[i].status ]_vars

\* C1 witness: a cycle has gone over a looped session that has been inactive
\* for longer than the timeout, and the session is still looped
TerminalPassedOver ==
    \E i \in SessionIndexes :
        /\ sessions[i].status = "looped"
        /\ monitorPc = "cycle" /\ snapshot = << >>
        /\ TimeoutCondition(i)

\* C2: in a monitor cycle of a running session the timeout test comes first,
\* then the loop check, then the completion check, and the first that holds
\* gives the status; when none holds the session stays running
FirstMatchDecides ==
    [][ \A i \in SessionIndexes :
            MonitorStepOf(i) =>
                sessions'[i].status =
                    IF TimeoutCondition(i) THEN "timeout"
                    ELSE IF LoopCondition(i) THEN "looped"
                    ELSE IF CompletionCondition(i) THEN "completed"
                    ELSE "running" ]_vars

\* C2 witness: a session has just been marked timeout in a cycle in which its
\* loop condition held as well
TimeoutBeatsLoop ==
    \E i \in SessionIndexes :
        /\ MonitoredNow(i)
        /\ observed.log.timeout
        /\ sessions[i].status = "timeout"
        /\ LoopCondition(i)

\* C3: no step lowers the offset a session stores for a channel
OffsetsNeverDecrease ==
    [][ \A i \in SessionIndexes : \A c \in Channels :
            Get(sessions'[i].last_offsets, c) >= Get(sessions[i].last_offsets, c) ]_vars

\* C3 witness: a pull without next has advanced an offset that was not 0
OffsetAdvancedWithoutNext ==
    \E i \in SessionIndexes :
        /\ MonitoredNow(i)
        /\ busMode = "nonext"
        /\ observed.log.loopPulled
        /\ observed.log.loopItems # << >>
        /\ Get(sessions[i].last_offsets, MessagesChannel(i)) > Len(observed.log.loopItems)

CompletedIffDoneTrue ==
    [][ \A i \in SessionIndexes :
            MonitorStepOf(i) =>
                LET pulled == IF BusAnswers THEN Unread(i, StatusChannel(i)) ELSE << >>
                    done == \E k \in 1..Len(pulled) :
                                pulled[k].t = "dict" /\ pulled[k].done = "True"
                IN  /\ sessions'[i].status = "completed"
                        <=> (~TimeoutCondition(i) /\ ~LoopCondition(i) /\ done)
                    /\ sessions'[i].status # "failed"
                    /\ sessions'[i].status # "looped" =>
                            sessions'[i].error_count = sessions[i].error_count ]_vars

\* C5 witness: a session has just completed on a pulled item whose done is true
CompletedOnDone ==
    \E i \in SessionIndexes :
        /\ MonitoredNow(i)
        /\ sessions[i].status = "completed"
        /\ \E k \in 1..Len(observed.log.complItems) : observed.log.complItems[k] = DoneTrue

Injected == observed.op = "launch_cursor_with_prompt" /\ observed.injected

\* the first strategy that answers success, 0 when none does
FirstSuccess(outcomes) ==
    IF \E k \in 1..Len(Methods) : outcomes[Methods[k]] = "ok"
    THEN CHOOSE k \in 1..Len(Methods) :
            /\ outcomes[Methods[k]] = "ok"
            /\ \A j \in 1..(k - 1) : outcomes[Methods[j]] # "ok"
    ELSE 0

\* C6: a run of the pipeline invokes clipboard_linux, clipboard_windows,
\* file_fallback, direct_input in this order, each at most once, up to and
\* including the first that succeeds, and reports success through that one
StopsAtFirstSuccess ==
    Injected =>
        LET k == FirstSuccess(observed.outcomes)
        IN  /\ observed.run.invoked =
                    SubSeq(Methods, 1, IF k = 0 THEN Len(Methods) ELSE k)
            /\ observed.run.via = IF k = 0 THEN "none" ELSE Methods[k]

\* C6 witness: the first strategy failed, the second succeeded, the third was
\* not invoked
SecondStrategyDelivered ==
    /\ Injected
    /\ observed.outcomes["clipboard_linux"] = "fail"
    /\ observed.outcomes["file_fallback"] = "ok"
    /\ observed.run.via = "clipboard_windows"
    /\ observed.run.invoked = << "clipboard_linux", "clipboard_windows" >>

\* C7: a strategy that raises is passed over like one that fails: nothing
\* escapes the pipeline and the strategy after it is invoked
RaisingStrategyPassedOver ==
    Injected =>
        /\ ~observed.run.escaped
        /\ observed.result
        /\ \A k \in 1..(Len(Methods) - 1) :
                ( /\ observed.outcomes[Methods[k]] = "raise"
                  /\ \A j \in 1..k : observed.outcomes[Methods[j]] # "ok" )
                => /\ Len(observed.run.invoked) > k
                   /\ observed.run.invoked[k + 1] = Methods[k + 1]

\* C7 witness: clipboard_linux raised and file_fallback delivered
DeliveredAfterRaise ==
    /\ Injected
    /\ observed.outcomes["clipboard_linux"] = "raise"
    /\ observed.run.via = "file_fallback"

\* C8: a run writes the manual instruction file once when every strategy
\* failed, once when file_fallback is the one that succeeded, and not at all
\* when a clipboard strategy succeeded
ManualFileWhenNeeded ==
    Injected =>
        LET k == FirstSuccess(observed.outcomes)
        IN  observed.run.manual =
                IF k = 0 THEN 1
                ELSE IF Methods[k] = "file_fallback" THEN 1
                ELSE 0

\* C8 witness: a clipboard strategy delivered and no file was written
NoManualFileAfterClipboard ==
    /\ Injected
    /\ observed.run.via \in {"clipboard_linux", "clipboard_windows"}
    /\ observed.run.manual = 0

\* the step in which stop_monitoring returns
StopReturns ==
    \/ stopPc = "cleanup" /\ stopPc' = "idle"
    \/ monitorPc # "stopped" /\ observed'.op = "monitor_keyboard_interrupt"

\* C9: when stop_monitoring returns, every session that was running when it
\* took the lock is interrupted and has exactly one summary, and every other
\* session has its status and its summaries as before
StopInterruptsRunning ==
    [][ StopReturns =>
            \A i \in SessionIndexes :
                IF sessions[i].status = "running"
                THEN /\ sessions'[i].status = "interrupted"
                     /\ summaries'[i] = << "interrupted" >>
                ELSE /\ sessions'[i].status = sessions[i].status
                     /\ summaries'[i] = summaries[i] ]_vars

\* C9 witness: stop_monitoring has returned after a cycle marked one session
\* timeout, and the other session, still running, was interrupted
StoppedWithTwoSessions ==
    /\ observed.op = "stop_monitoring"
    /\ Len(sessions) = 2
    /\ \E i, j \in SessionIndexes :
        /\ sessions[i].status = "timeout" /\ summaries[i] = << "timeout" >>
        /\ sessions[j].status = "interrupted" /\ summaries[j] = << "interrupted" >>

\* C9 witness, second half: two running sessions were interrupted at once
StoppedTwoRunning ==
    /\ observed.op = "stop_monitoring"
    /\ Len(sessions) = 2
    /\ \A i \in SessionIndexes :
        sessions[i].status = "interrupted" /\ summaries[i] = << "interrupted" >>

\* C10 as claimed: a session that reached timeout, looped, completed or
\* interrupted has exactly one summary, which carries that status, and a
\* running session has none
OneSummaryPerTerminalSession ==
    \A i \in SessionIndexes :
        IF sessions[i].status \in TerminalStatuses
        THEN summaries[i] = << sessions[i].status >>
        ELSE summaries[i] = << >>

\* C10, what the code does keep: a session that is timeout, completed or
\* interrupted has exactly one summary with that status, a looped or running
\* session has none
OneSummaryUnlessLooped ==
    \A i \in SessionIndexes :
        IF sessions[i].status \in {"timeout", "completed", "interrupted"}
        THEN summaries[i] = << sessions[i].status >>
        ELSE summaries[i] = << >>

\* the step in which the monitor finds the running session i looping
LoopStepOf(i) == MonitorStepOf(i) /\ observed'.log.loop

\* C11 as claimed: the cycle in which the loop detector returns true leaves
\* the session looped, with loop_detected set, error_count one higher,
\* last_error set, the loop breaker handed to the simple injection and
\* last_activity refreshed, whatever the simple injection answers
LoopHandledWhateverInjection ==
    [][ \A i \in SessionIndexes :
            LoopStepOf(i) =>
                /\ sessions'[i].status = "looped"
                /\ sessions'[i].loop_detected
                /\ observed'.log.inject \in {"ok", "fail", "raise"}
                /\ sessions'[i].error_count = sessions[i].error_count + 1
                /\ sessions'[i].last_error # "None"
                /\ sessions'[i].last_activity = now ]_vars

\* C11, what the code does keep: the session is looped with loop_detected set
\* and the loop breaker handed over; the counter, last_error and
\* last_activity follow only when the simple injection returned
LoopHandledWhenInjectionReturns ==
    [][ \A i \in SessionIndexes :
            LoopStepOf(i) =>
                /\ sessions'[i].status = "looped"
                /\ sessions'[i].loop_detected
                /\ observed'.log.inject \in {"ok", "fail", "raise"}
                /\ IF observed'.log.inject = "raise"
                   THEN /\ sessions'[i].error_count = sessions[i].error_count
                        /\ sessions'[i].last_error = sessions[i].last_error
                        /\ sessions'[i].last_activity = sessions[i].last_activity
                   ELSE /\ sessions'[i].error_count = sessions[i].error_count + 1
                        /\ sessions'[i].last_error # "None"
                        /\ sessions'[i].last_activity = now ]_vars

\* the step in which the monitor evaluates session i, whatever its status
EvaluatedStep(i) ==
    /\ monitorPc = "cycle" /\ snapshot # << >> /\ Head(snapshot) = i
    /\ snapshot' = Tail(snapshot)
    /\ observed'.op = "monitor_single_session"

\* the step in which the loop breaker is injected for session i
InterventionStep(i) == EvaluatedStep(i) /\ observed'.log.inject # "none"

\* C12: the loop breaker is injected for a session only in the step that
\* sets its loop_detected, through exactly one strategy; from then on the
\* session keeps loop_detected and the status looped and the monitor never
\* evaluates it again, so that it gets the loop breaker at most once
LoopBreakerOneShot ==
    [][ \A i \in SessionIndexes :
            /\ InterventionStep(i) =>
                    /\ ~sessions[i].loop_detected
                    /\ sessions'[i].loop_detected
                    /\ sessions'[i].status = "looped"
                    /\ observed'.log.breaker = << SimpleMethod >>
            /\ sessions[i].loop_detected =>
                    /\ sessions[i].status = "looped"
                    /\ sessions'[i].loop_detected
                    /\ sessions'[i].status = "looped"
                    /\ ~EvaluatedStep(i) ]_vars

\* C12 witness: a cycle has passed over a session that got the loop breaker
\* before, although its channel holds enough unread items for a second loop
LoopedSessionLeftAlone ==
    \E i \in SessionIndexes :
        /\ sessions[i].loop_detected /\ sessions[i].status = "looped"
        /\ monitorPc = "cycle" /\ snapshot = << >>
        /\ BusAnswers
        /\ IsLoop(Unread(i, MessagesChannel(i)), Threshold)

\* C13: when pull raises in the loop detector and in the completion detector
\* of a cycle, both return false and the session leaves the cycle as it
\* entered it: running, with the same offsets, message_count and
\* error_count; no session is ever marked failed
BusErrorsFailOpen ==
    [][ \A i \in SessionIndexes :
            /\ sessions'[i].status # "failed"
            /\ (MonitorStepOf(i) /\ busMode = "down" /\ ~TimeoutCondition(i)) =>
                    /\ observed'.log.loopRan /\ ~observed'.log.loop
                    /\ observed'.log.complRan /\ ~observed'.log.completed
                    /\ sessions'[i].status = "running"
                    /\ sessions'[i].last_offsets = sessions[i].last_offsets
                    /\ sessions'[i].message_count = sessions[i].message_count
                    /\ sessions'[i].error_count = sessions[i].error_count
                    /\ sessions'[i] = sessions[i] ]_vars

\* C13 witness: both detectors ran against a bus that raised while the
\* channels held a loop and a done item, and the session is still running
RunningAfterBusError ==
    \E i \in SessionIndexes :
        /\ MonitoredNow(i) /\ busMode = "down"
        /\ observed.log.loopRan /\ ~observed.log.loopPulled
        /\ observed.log.complRan /\ ~observed.log.complPulled
        /\ IsLoop(Unread(i, MessagesChannel(i)), Threshold)
        /\ \E k \in 1..Len(Unread(i, StatusChannel(i))) :
                Unread(i, StatusChannel(i))[k] = DoneTrue
        /\ sessions[i].status = "running"
        /\ sessions[i].message_count = 0

\* C14 as claimed: last_activity of a session never decreases, and it
\* changes only in a monitor step in which a detector read new items for the
\* session or the loop breaker was delivered
LastActivityOnlyOnActivity ==
    [][ \A i \in SessionIndexes :
            /\ sessions'[i].last_activity >= sessions[i].last_activity
            /\ sessions'[i].last_activity # sessions[i].last_activity =>
                    /\ MonitorStepOf(i)
                    /\ \/ observed'.log.loopItems # << >>
                       \/ observed'.log.complItems # << >>
                       \/ observed'.log.inject = "ok" ]_vars

\* C14, what the code does keep: last_activity never decreases, and it is
\* written by a launch that started the application and by a loop-breaker
\* injection that did not raise, delivered or not
LastActivityWrittenByLaunchAndBreaker ==
    [][ \A i \in SessionIndexes :
            /\ sessions'[i].last_activity >= sessions[i].last_activity
            /\ sessions'[i].last_activity # sessions[i].last_activity =>
                    \/ MonitorStepOf(i) /\ observed'.log.inject \in {"ok", "fail"}
                    \/ sessions' = [ sessions EXCEPT ![i].last_activity = now ] ]_vars

\* C15 as claimed: once stop_monitoring has been called, the monitor loop
\* terminates, however the call is interleaved with the start of
\* monitor_sessions and with a cycle
StopEndsMonitor == (stopPc = "cleanup") ~> (monitorPc = "stopped")

\* C15, what the code does keep: once running is false while the monitor is
\* past self.running = True, the loop ends at its next test of the flag
StopAfterStartEndsMonitor ==
    (~running /\ monitorPc \in {"loop", "acquire", "cycle"}) ~> (monitorPc = "stopped")

\* C16: the items a detector invocation examines are the items of the
\* channel right after the offset the session had, up to the offset it has
\* afterwards, and message_count grows by their number: no item is examined
\* or counted by two invocations, with or without next in the answers
EachItemOnce ==
    [][ \A i \in SessionIndexes :
            MonitorStepOf(i) =>
                LET mc == MessagesChannel(i)
                    sc == StatusChannel(i)
                    m0 == Get(sessions[i].last_offsets, mc)
                    m1 == Get(sessions'[i].last_offsets, mc)
                    s0 == Get(sessions[i].last_offsets, sc)
                    s1 == Get(sessions'[i].last_offsets, sc)
                IN  /\ m0 <= m1 /\ m1 <= Len(bus[mc])
                    /\ s0 <= s1 /\ s1 <= Len(bus[sc])
                    /\ observed'.log.loopItems = SubSeq(bus[mc], m0 + 1, m1)
                    /\ observed'.log.complItems = SubSeq(bus[sc], s0 + 1, s1)
                    /\ sessions'[i].message_count =
                            sessions[i].message_count + (m1 - m0) + (s1 - s0)
                    /\ sessions'[i].message_count = m1 + s1 ]_vars

\* C16 witness: on a bus that gives no next, both detectors read new items
\* in a cycle that came after an earlier pull, and every item of the two
\* channels has been counted once
SecondPullReadOnlyNewItems ==
    \E i \in SessionIndexes :
        /\ MonitoredNow(i) /\ busMode = "nonext"
        /\ observed.log.loopItems # << >>
        /\ observed.log.complItems # << >>
        /\ Get(sessions[i].last_offsets, MessagesChannel(i)) > Len(observed.log.loopItems)
        /\ sessions[i].message_count =
                Len(bus[MessagesChannel(i)]) + Len(bus[StatusChannel(i)])

\* C17: no operation lowers message_count or error_count of a session, and
\* no operation clears loop_detected once it is set
CountersNeverDecrease ==
    [][ \A i \in SessionIndexes :
            /\ sessions'[i].message_count >= sessions[i].message_count
            /\ sessions'[i].error_count >= sessions[i].error_count
            /\ sessions[i].loop_detected => sessions'[i].loop_detected ]_vars

\* C17 witness: a session whose counters have grown and whose loop_detected
\* is set has gone through a stop_monitoring after that
CountersKeptThroughStop ==
    \E i \in SessionIndexes :
        /\ observed.op = "stop_monitoring"
        /\ sessions[i].loop_detected
        /\ sessions[i].message_count > 0
        /\ sessions[i].error_count > 0

\* the step of a create_chat_session, among launches and ticks of the clock
CreateStep == sessions' # sessions /\ observed'.op = "env"

UnknownLaunchStep ==
    /\ observed'.op = "launch_cursor_with_prompt"
    /\ observed'.id \notin KnownIds

\* C19: launch_cursor_with_prompt with an id that is not in the registry
\* returns False as its not-found outcome, launches nothing, injects
\* nothing, and leaves the registry and every session as they were
UnknownIdReported ==
    [][ UnknownLaunchStep =>
            /\ ~observed'.found
            /\ ~observed'.result
            /\ ~observed'.launched
            /\ ~observed'.injected
            /\ sessions' = sessions
            /\ summaries' = summaries ]_vars

\* C19 witness: with a session registered and the application ready to
\* start, a launch for an id that is not registered was turned down
UnknownIdTurnedDown ==
    /\ observed.op = "launch_cursor_with_prompt"
    /\ observed.id \notin KnownIds
    /\ ~observed.result
    /\ Len(sessions) > 0

\* C20 as claimed, where the application has started: a
\* launch_cursor_with_prompt for a registered session tries the strategies
\* in their order until one succeeds or all have been tried, and its result
\* tells whether a strategy delivered the prompt
DeliveryOutcomeReturned ==
    ( /\ observed.op = "launch_cursor_with_prompt"
      /\ observed.id \in KnownIds
      /\ observed.launched ) =>
        /\ observed.injected
        /\ LET k == FirstSuccess(observed.outcomes)
           IN  observed.run.invoked =
                    SubSeq(Methods, 1, IF k = 0 THEN Len(Methods) ELSE k)
        /\ observed.result = (observed.run.via # "none")

\* C20, what the code does keep: the strategies are tried only when the
\* application was started, and the result tells whether the application
\* was started, the same for every outcome of the strategies
ResultReportsLaunchOnly ==
    (observed.op = "launch_cursor_with_prompt" /\ observed.id \in KnownIds) =>
        /\ observed.injected = observed.launched
        /\ observed.result = observed.launched
        /\ observed.injected =>
                LET k == FirstSuccess(observed.outcomes)
                IN  observed.run.invoked =
                        SubSeq(Methods, 1, IF k = 0 THEN Len(Methods) ELSE k)

\* C20: a launch returned True although every strategy had failed
TrueWithNothingDelivered ==
    /\ observed.op = "launch_cursor_with_prompt"
    /\ observed.injected
    /\ observed.run.via = "none"
    /\ observed.result

MonitorSurvivesExceptions ==
    [][ /\ observed'.op = "monitor_exception" =>
              /\ monitorPc' = "loop"
              /\ running' = running
              /\ sessions' = sessions
        /\ (monitorPc # "stopped" /\ monitorPc' = "stopped") => ~running' ]_vars

\* C22 witness: a cycle was ended by an exception while a session was still
\* to be evaluated, and the monitor is back at its loop with running true
CycleAbortedLoopGoesOn ==
    /\ observed.op = "monitor_exception"
    /\ monitorPc = "loop"
    /\ running
    /\ \E i \in SessionIndexes : sessions[i].status = "running"

\* C23: with enable_gui_automation false no strategy focuses a window or
\* sends keystrokes: whatever the environment that gave the strategies of a
\* launch their answers, and whatever the environment of a loop breaker,
\* the strategies invoked performed no OS-interactive action
GuiOffNoOsAction ==
    ~config.enable_gui_automation =>
        /\ (Injected /\ ~observed.run.escaped) =>
              \A env \in Environments :
                  OutcomesIn(FALSE, env) = observed.outcomes =>
                      ActsOf(observed.run.invoked, FALSE, env) = {}
        /\ (observed.op = "monitor_single_session"
              /\ observed.log.breaker # << >>) =>
              \A env \in Environments :
                  ActsOf(observed.log.breaker, FALSE, env) = {}

\* the switch does hold where it is looked at: on a posix machine that is
\* not WSL, and on Windows, no strategy of a launch acts on the desktop
GuiOffHoldsOutsideWsl ==
    (~config.enable_gui_automation /\ os_name \in {"posix", "nt"}
        /\ Injected /\ ~observed.run.escaped) =>
        \A env \in Environments :
            (~env.wsl /\ OutcomesIn(FALSE, env) = observed.outcomes) =>
                ActsOf(observed.run.invoked, FALSE, env) = {}

\* C24: a pull that returns moves the offset of its channel to the next of
\* the answer when the answer has one, and to since + len(items) when it
\* has none, whether or not the detector then finds a loop or a completion;
\* every detector that runs while the bus answers pulls, and an offset moves
\* only through a pull
OffsetRuleExact ==
    [][ \A i \in SessionIndexes :
            MonitorStepOf(i) =>
                LET mc == MessagesChannel(i)
                    sc == StatusChannel(i)
                    m0 == Get(sessions[i].last_offsets, mc)
                    s0 == Get(sessions[i].last_offsets, sc)
                    m == BusPull(mc, m0, PullLimit)
                    st == BusPull(sc, s0, PullLimit)
                    log == observed'.log
                IN  /\ log.loopPulled = (log.loopRan /\ busMode # "down")
                    /\ log.complPulled = (log.complRan /\ busMode # "down")
                    /\ Get(sessions'[i].last_offsets, mc) =
                          IF ~log.loopPulled THEN m0
                          ELSE IF m.hasNext THEN m.next
                          ELSE m0 + Len(log.loopItems)
                    /\ Get(sessions'[i].last_offsets, sc) =
                          IF ~log.complPulled THEN s0
                          ELSE IF st.hasNext THEN st.next
                          ELSE s0 + Len(log.complItems) ]_vars

\* C24 witness: an answer without next in which the detector found a loop,
\* and the offset, which was not 0, has moved past the items of the answer
OffsetMovedThoughLoopFound ==
    \E i \in SessionIndexes :
        /\ MonitoredNow(i)
        /\ busMode = "nonext"
        /\ observed.log.loop
        /\ Get(sessions[i].last_offsets, MessagesChannel(i))
              > Len(observed.log.loopItems)

\* the detector's answer to the batch of items it pulled for session i
BatchStep(i) == MonitorStepOf(i) /\ observed'.log.loopPulled

\* the bodies of items from position from on are the same string
SameFrom(items, from) ==
    \A j, k \in 1..Len(items) : (j >= from /\ k >= from) => items[j].s = items[k].s

\* C25 as claimed: for every threshold and every batch of 0 to 5 items the
\* detector returns true exactly when the batch has at least threshold
\* items and its last 3 bodies are identical as strings, so that three
\* identical bodies were read
LoopIffThreeIdentical ==
    [][ \A i \in SessionIndexes :
            BatchStep(i) =>
                LET items == observed'.log.loopItems
                    n == Len(items)
                IN  /\ n <= PullLimit
                    /\ observed'.log.loop =
                          (n >= Threshold /\ n >= 3 /\ SameFrom(items, n - 2)) ]_vars

\* C25 as amended: the detector returns true exactly when the batch has at
\* least threshold items and its last 3 bodies, all of its bodies when it
\* has fewer than 3 items, are identical as strings
LoopIffLastBodiesIdentical ==
    [][ \A i \in SessionIndexes :
            BatchStep(i) =>
                LET items == observed'.log.loopItems
                    n == Len(items)
                IN  /\ n <= PullLimit
                    /\ observed'.log.loop =
                          (n >= Threshold /\ SameFrom(items, n - 2)) ]_vars

\* C25 witness: with threshold 2 a batch of two items, an int and a str
\* that read the same, was found to be a loop
TwoItemsAreALoop ==
    \E i \in SessionIndexes :
        /\ MonitoredNow(i)
        /\ Threshold = 2
        /\ observed.log.loop
        /\ Len(observed.log.loopItems) = 2
        /\ observed.log.loopItems[1].t # observed.log.loopItems[2].t

\* the items read so far for session i on its messages channel
ItemsRead(i) ==
    SubSeq(bus[MessagesChannel(i)], 1,
           Get(sessions[i].last_offsets, MessagesChannel(i)))

\* the largest number of items of a sequence that read the same
MostRepeated(items) ==
    LET count(k) == Cardinality({ j \in 1..Len(items) : items[j].s = items[k].s })
    IN  IF items = << >> THEN 0
        ELSE CHOOSE c \in 1..Len(items) :
                /\ \E k \in 1..Len(items) : count(k) = c
                /\ \A k \in 1..Len(items) : count(k) <= c

\* C26 as claimed: a session is looped only if at least threshold of the
\* items read for it carry the same body
LoopedOnlyWithThresholdRepeats ==
    \A i \in SessionIndexes :
        sessions[i].status = "looped" => MostRepeated(ItemsRead(i)) >= Threshold

\* what does bound a looped session: the batch that made it looped had at
\* least threshold items, among them the same body min(3, threshold) times
LoopedWithWindowRepeats ==
    \A i \in SessionIndexes :
        sessions[i].status = "looped" =>
            /\ Len(ItemsRead(i)) >= Threshold
            /\ MostRepeated(ItemsRead(i)) >= Min(RecentWindow, Threshold)

\* C30: with a threshold above the 5 items of a pull no session is looped
NeverLoopedAboveFive ==
    Threshold > PullLimit =>
        \A i \in SessionIndexes : sessions[i].status # "looped"

\* C30 witness: with threshold 6 the monitor has read 6 items with the
\* same body, in more than one pull, and the session is still running
SixIdenticalReadStillRunning ==
    \E i \in SessionIndexes :
        /\ Threshold = PullLimit + 1
        /\ Len(ItemsRead(i)) = PullLimit + 1
        /\ MostRepeated(ItemsRead(i)) = PullLimit + 1
        /\ sessions[i].status = "running"

\* the monitor is about to pull from the bus for the running session at
\* the head of its snapshot
PullDue ==
    /\ monitorPc = "cycle"
    /\ snapshot # << >>
    /\ ShouldMonitor(sessions[Head(snapshot)])
    /\ ~TimeoutCondition(Head(snapshot))
    /\ mcp_bus = "connected"

\* C27 as claimed: the monitor does its bus pulls without the registry
\* lock, so that a pull never keeps stop_monitoring or get_detailed_status
\* waiting
PullsOutsideLock ==
    PullDue =>
        /\ ~LockHeld
        /\ stopPc = "cleanup" => ENABLED stop_monitoring_cleanup
        /\ ENABLED get_detailed_status(FALSE)

\* what the code does: the lock is held from the snapshot to the end of
\* the evaluation of its last session
LockHeldThroughCycle == snapshot # << >> => LockHeld

TrafficKeepsLastActivity ==
    [][ \A i \in SessionIndexes :
            (MonitorStepOf(i) /\ ~observed'.log.loop) =>
                sessions'[i].last_activity = sessions[i].last_activity ]_vars

MonitorEnabledness == (ENABLED <<Monitor>>_vars) = MonitorCanStep

\* a step of the thread of monitor_sessions inside its while loop
MonitorThreadStep ==
    /\ monitorPc \in {"loop", "acquire", "cycle"}
    /\ monitorPc' \in {"loop", "acquire", "cycle"}
    /\ (monitorPc' # monitorPc \/ snapshot' # snapshot)

\* C29: a cycle changes what its first matching check requires and nothing
\* else: the step that times a session out pulls nothing and changes its
\* status only; the step that finds a loop runs no completion check and
\* leaves the offset of the status channel; and a step of the monitor
\* changes no session but the running one it evaluates, and nothing on the
\* bus
CycleFrame ==
    [][ /\ \A i \in SessionIndexes :
              /\ (MonitorStepOf(i) /\ observed'.log.timeout) =>
                    /\ ~observed'.log.loopRan /\ ~observed'.log.complRan
                    /\ ~observed'.log.loopPulled /\ ~observed'.log.complPulled
                    /\ sessions'[i] = [ sessions[i] EXCEPT !.status = "timeout" ]
              /\ (MonitorStepOf(i) /\ observed'.log.loop) =>
                    /\ ~observed'.log.complRan /\ ~observed'.log.complPulled
                    /\ Get(sessions'[i].last_offsets, StatusChannel(i))
                          = Get(sessions[i].last_offsets, StatusChannel(i))
        /\ MonitorThreadStep =>
              /\ Len(sessions') = Len(sessions)
              /\ bus' = bus
              /\ \A j \in SessionIndexes :
                    (sessions[j].status # "running" \/ ~MonitorStepOf(j)) =>
                        sessions'[j] = sessions[j] ]_vars

\* C29 witness: next to a session that is no longer running, a session has
\* just timed out with items waiting on its messages channel, none of them
\* pulled or counted
TimedOutUntouched ==
    \E i, j \in SessionIndexes :
        /\ j # i
        /\ sessions[j].status \in TerminalStatuses
        /\ MonitoredNow(i)
        /\ observed.log.timeout
        /\ ~observed.log.loopPulled
        /\ sessions[i].message_count = 0
        /\ sessions[i].last_offsets = << >>
        /\ Unread(i, MessagesChannel(i)) # << >>

====
